---- MODULE Spec2Model ----
(***************************************************************************)
(* Tournament-sort top-K selection of rank_llm                             *)
(* (rerank/listwise/reorder/tournament_sort_rerank_policy.py).             *)
(*                                                                         *)
(* A TournamentSorter builds a tournament tree over candidates 0..N-1,     *)
(* seeds every internal node with one oracle request, and then extracts    *)
(* the root's best candidate K times, recomputing the leaf-to-root path    *)
(* after each extraction.  perform() is a generator: every `yield request` *)
(* suspends it until the caller has written request.result.                *)
(*                                                                         *)
(* Nodes are numbered in creation order (the order of _all_node): node id  *)
(* x+1 is the leaf of candidate x, internal nodes follow.                  *)
(***************************************************************************)
EXTENDS Integers, Sequences, FiniteSets, TLC

\* Largest number of passages and largest window size of the model.
MaxN == 3
MaxWindow == 5

VARIABLES
    n_passage,     \* TournamentSorter._n_passage (N)
    window_size,   \* TournamentSorter._window_size
    r,             \* TournamentSorter._r, every node's _top_k
    oracle,        \* how the caller answers: "consistent", "full" or "any"
    order,         \* the caller's fixed ranking, best candidate first
    pc,            \* position of the program
    err,           \* the exception that ended the run, "" if none
    cs,            \* build: the nodes of the current level
    all_node,      \* _all_node: every node, in creation order
    parent,        \* node -> TournamentSortNode.parent
    n_children,    \* node -> TournamentSortNode._n
    children,      \* node -> TournamentSortNode._children
    top,           \* node -> TournamentSortNode._top
    tmp,           \* node -> TournamentSortNode._tmp
    tr,            \* TournamentSorter._tr, the root
    idx_to_node,   \* TournamentSorter._idx_to_node
    top_k,         \* perform's argument K
    result,        \* perform's result list
    seed_pos,      \* position of `for nd in self._all_node`
    nodes,         \* the list _pop returned
    path_pos,      \* position of `for node in nodes`
    resort_param,  \* perform's local resort_param
    request,       \* the ResortRequest last yielded
    cleaned_result,\* perform's local cleaned_result
    answer_len,    \* history: len(request.result) at the last resume,
                   \* -1 while a request is unanswered
    log            \* history: the node and len(result) of every yield

vars == << n_passage, window_size, r, oracle, order, pc, err, cs, all_node,
           parent, n_children, children, top, tmp, tr, idx_to_node, top_k,
           result,
           seed_pos, nodes, path_pos, resort_param, request, cleaned_result,
           answer_len, log >>

config == << n_passage, window_size, r, oracle, order >>
tree == << all_node, parent, n_children, children, tr, idx_to_node >>
locals == << resort_param, request, cleaned_result, answer_len >>

----------------------------------------------------------------------------
\* Python values

\* None, for a list-valued field (no list of the program holds -1)
None == << -1 >>
\* parent is None
NoNode == 0
\* _n of a leaf
LeafN == -1

Min(a, b) == IF a < b THEN a ELSE b

Contains(s, x) == \E k \in 1..Len(s) : s[k] = x

Range(s) == { s[k] : k \in 1..Len(s) }

\* list(range(n))
RangeList(n) == [ k \in 1..n |-> k - 1 ]

\* s[a:b] of Python, 0-based, end exclusive
Slice(s, a, b) == SubSeq(s, a + 1, Min(b, Len(s)))

----------------------------------------------------------------------------
\* TournamentSortNode

\* __init__(top_k, index=x): the fields of a new leaf
LeafInit(st, x) ==
    [ all_node   |-> Append(st.all_node, Len(st.all_node) + 1),
      parent     |-> Append(st.parent, NoNode),
      n_children |-> Append(st.n_children, LeafN),
      children   |-> Append(st.children, << >>),
      top        |-> Append(st.top, << x >>),
      tmp        |-> Append(st.tmp, None) ]

\* InternalInit with the slip `self._top = []`: an internal node is born
\* with a set, empty top
InternalInitEmptyTop(st, chs) ==
    LET id == Len(st.all_node) + 1 IN
    [ all_node   |-> Append(st.all_node, id),
      parent     |-> [ k \in 1..id |->
                         IF k = id THEN NoNode
                         ELSE IF Contains(chs, k) THEN id
                         ELSE st.parent[k] ],
      n_children |-> Append(st.n_children, Len(chs)),
      children   |-> Append(st.children, chs),
      top        |-> Append(st.top, << >>),
      tmp        |-> Append(st.tmp, None) ]

\* __init__(top_k, children=chs): the new internal node becomes the parent
\* of every child; its _top and _tmp start as None
InternalInit(st, chs) ==
    LET id == Len(st.all_node) + 1 IN
    [ all_node   |-> Append(st.all_node, id),
      parent     |-> [ k \in 1..id |->
                         IF k = id THEN NoNode
                         ELSE IF Contains(chs, k) THEN id
                         ELSE st.parent[k] ],
      n_children |-> Append(st.n_children, Len(chs)),
      children   |-> Append(st.children, chs),
      top        |-> Append(st.top, None),
      tmp        |-> Append(st.tmp, None) ]

EmptyTree ==
    [ all_node |-> << >>, parent |-> << >>, n_children |-> << >>,
      children |-> << >>, top |-> << >>, tmp |-> << >> ]

CurrentTree ==
    [ all_node |-> all_node, parent |-> parent, n_children |-> n_children,
      children |-> children, top |-> top, tmp |-> tmp ]

\* build: cs = [TournamentSortNode(top_k, index=x) for x in inds]
RECURSIVE MakeLeaves(_, _)
MakeLeaves(st, inds) ==
    IF inds = << >> THEN st
    ELSE MakeLeaves(LeafInit(st, Head(inds)), Tail(inds))

\* ChildrenSize without the division (`children_size = window_size`)
ChildrenSizeWindow == window_size

\* build: children_size = window_size // top_k
ChildrenSize == window_size \div r

\* GroupLevel without the promotion of a lone node: every chunk is wrapped
RECURSIVE GroupLevelWrapAll(_, _, _, _)
GroupLevelWrapAll(level, c, nxt, st) ==
    IF c >= Len(level) THEN [ nxt |-> nxt, st |-> st ]
    ELSE LET chunk == Slice(level, c, Min(Len(level), c + ChildrenSize)) IN
         GroupLevelWrapAll(level, c + ChildrenSize,
                           Append(nxt, Len(st.all_node) + 1),
                           InternalInit(st, chunk))

\* build: the body of `for c in range(0, len(cs), children_size)`, from
\* offset c on; a chunk of one node is promoted, a longer one is wrapped
RECURSIVE GroupLevel(_, _, _, _)
GroupLevel(level, c, nxt, st) ==
    IF c >= Len(level) THEN [ nxt |-> nxt, st |-> st ]
    ELSE LET chunk == Slice(level, c, Min(Len(level), c + ChildrenSize)) IN
         IF Len(chunk) = 1
         THEN GroupLevel(level, c + ChildrenSize, Append(nxt, chunk[1]), st)
         ELSE GroupLevel(level, c + ChildrenSize,
                         Append(nxt, Len(st.all_node) + 1),
                         InternalInit(st, chunk))

IsLeaf(nd) == n_children[nd] = LeafN

\* Reset that forgets to clear the top
ResetNoop(t, nd) == t

\* reset(): an internal node forgets its top
Reset(t, nd) ==
    IF IsLeaf(nd) THEN t ELSE [ t EXCEPT ![nd] = None ]

\* Invalidate that leaves the leaf's candidate in place
InvalidateNoop(t, nd) == t

\* invalidate(): a leaf's top becomes the empty list
Invalidate(t, nd) ==
    IF ~IsLeaf(nd) THEN t ELSE [ t EXCEPT ![nd] = << >> ]

\* Top without the slice (`return self._top`)
TopWhole(t, nd) == t[nd]

\* top(): self._top[: min(len(self._top), self._top_k)]
Top(t, nd) == Slice(t[nd], 0, Min(Len(t[nd]), r))

\* get_resort_param: [x for child in self._children for x in child.top()]
RECURSIVE FlattenTops(_, _)
FlattenTops(t, chs) ==
    IF chs = << >> THEN << >>
    ELSE Top(t, Head(chs)) \o FlattenTops(t, Tail(chs))

\* get_resort_param: None for a leaf or a node whose top is set
GetResortParam(nd) ==
    IF IsLeaf(nd) \/ top[nd] # None THEN None
    ELSE FlattenTops(top, children[nd])

\* get_resort_param reads child.top(), which asserts the child's _top
ChildTopUnset(nd) == \E k \in 1..Len(children[nd]) : top[children[nd][k]] = None

\* ResortLoop that reads self._tmp by the loop counter instead of perm's
\* entry (`ind = self._tmp[k]`)
RECURSIVE ResortLoopByCounter(_, _, _, _)
ResortLoopByCounter(tmpv, perm, k, tops) ==
    IF k > Len(perm) THEN tops
    ELSE IF Len(tops) > r THEN tops
    ELSE LET ind == tmpv[k] IN
         ResortLoopByCounter(tmpv, perm, k + 1,
                    IF Contains(tops, ind) THEN tops ELSE Append(tops, ind))

\* resort: the loop over perm, from its k-th entry on
RECURSIVE ResortLoop(_, _, _, _)
ResortLoop(tmpv, perm, k, tops) ==
    IF k > Len(perm) THEN tops
    ELSE IF Len(tops) > r THEN tops
    ELSE LET ind == tmpv[perm[k] + 1] IN
         ResortLoop(tmpv, perm, k + 1,
                    IF Contains(tops, ind) THEN tops ELSE Append(tops, ind))

\* resort(perm): the list stored as self._top
Resort(tmpv, perm) == ResortLoop(tmpv, perm, 1, << >>)

----------------------------------------------------------------------------
\* TournamentSorter

\* FirstLoop without `if j not in choices`: every j is appended
RECURSIVE FirstLoopNoSkip(_, _, _, _)
FirstLoopNoSkip(j, expect_size, ind_choices, res) ==
    IF j < 0 THEN res
    ELSE IF Len(res) + Len(ind_choices) >= expect_size THEN res
    ELSE FirstLoopNoSkip(j - 1, expect_size, ind_choices, Append(res, j))

\* _get_random_indices: the first loop, j from n_passage-1 down, skipping
\* the indices of ind_choices
RECURSIVE FirstLoop(_, _, _, _)
FirstLoop(j, expect_size, ind_choices, res) ==
    IF j < 0 THEN res
    ELSE IF Len(res) + Len(ind_choices) >= expect_size THEN res
    ELSE FirstLoop(j - 1, expect_size, ind_choices,
                   IF j \notin Range(ind_choices) THEN Append(res, j) ELSE res)

\* _get_random_indices: the second loop, j from n_passage-1 down, every j
RECURSIVE SecondLoop(_, _, _, _)
SecondLoop(j, expect_size, ind_choices, res) ==
    IF j < 0 THEN res
    ELSE IF Len(res) + Len(ind_choices) >= expect_size THEN res
    ELSE SecondLoop(j - 1, expect_size, ind_choices, Append(res, j))

GetRandomIndices(expect_size, ind_choices) ==
    SecondLoop(n_passage - 1, expect_size, ind_choices,
               FirstLoop(n_passage - 1, expect_size, ind_choices, << >>))

\* PadSize that appends no fillers
PadSizeNone(inds) == inds

\* _pad_size
PadSize(inds) ==
    IF Len(inds) >= window_size THEN inds
    ELSE inds \o GetRandomIndices(window_size, inds)

\* UnpadPerm that measures against the padded window
\* (`x < len(padded)`): filler positions stay in
UnpadPermPadded(inds, padded, perm) ==
    LET InWindow(x) == x < Len(padded) IN SelectSeq(perm, InWindow)

\* _unpad_perm: [x for x in perm if x < len(inds)]
UnpadPerm(inds, padded, perm) ==
    LET Real(x) == x < Len(inds) IN SelectSeq(perm, Real)

\* PopList that stops below the root (`while on.parent is not None`)
RECURSIVE PopListBelowRoot(_)
PopListBelowRoot(on) ==
    IF parent[on] = NoNode THEN << >>
    ELSE << on >> \o PopListBelowRoot(parent[on])

\* PopList that returns the chain root first (`lst.insert(0, on)`)
RECURSIVE PopListRootFirst(_)
PopListRootFirst(on) ==
    IF on = NoNode THEN << >> ELSE PopListRootFirst(parent[on]) \o << on >>

\* _pop: the chain of nodes from `on` to the root
RECURSIVE PopList(_)
PopList(on) ==
    IF on = NoNode THEN << >> ELSE << on >> \o PopList(parent[on])

\* PopTops that also resets every internal node off the chain
PopTopsEverywhere(t, lst) ==
    [ nd \in DOMAIN t |->
        IF ~IsLeaf(nd) THEN None
        ELSE IF Contains(lst, nd) THEN << >>
        ELSE t[nd] ]

\* _pop: invalidate() and reset() on every node of the chain
RECURSIVE PopTops(_, _)
PopTops(t, lst) ==
    IF lst = << >> THEN t
    ELSE PopTops(Reset(Invalidate(t, Head(lst)), Head(lst)), Tail(lst))

\* build: base_nodes = {idx: c for idx, c in zip(inds, cs)}
BaseNodes(inds, level) ==
    [ x \in Range(inds) |->
        level[CHOOSE k \in 1..Len(inds) : inds[k] = x] ]

\* ResortRequest(padded, [])
ResortRequest(indices, res) == [ indices |-> indices, result |-> res ]

----------------------------------------------------------------------------
\* The caller of the generator: what it writes into request.result

\* every ordering of S = 0..n-1, as a list
Perms(S) ==
    { [ k \in 1..Cardinality(S) |-> f[k - 1] ] : f \in Permutations(S) }

\* rank of candidate c in the caller's order (1 is best)
Rank(c) == CHOOSE k \in 1..Len(order) : order[k] = c

\* the orderings of the positions S of the window that never put a worse
\* candidate before a better one
RECURSIVE ConsistentPerms(_, _)
ConsistentPerms(padded, S) ==
    IF S = {} THEN { << >> }
    ELSE LET best == { p \in S : \A q \in S :
                         Rank(padded[p + 1]) <= Rank(padded[q + 1]) } IN
         UNION { { << p >> \o q : q \in ConsistentPerms(padded, S \ {p}) }
                 : p \in best }

\* answers of at most two positions, repeats allowed
ShortAnswers(S) ==
    { << >> } \cup { << p >> : p \in S } \cup { << p, q >> : p \in S, q \in S }

Positions(padded) == 0..(Len(padded) - 1)

\* three full permutations of n positions: the window's own order, its
\* reverse, and its rotation by one
SamplePerms(n) ==
    { [ k \in 1..n |-> k - 1 ],
      [ k \in 1..n |-> n - k ],
      [ k \in 1..n |-> k % n ] }

IsFullPerm(padded, ans) ==
    /\ Len(ans) = Len(padded)
    /\ Range(ans) = Positions(padded)

OracleAnswers(padded) ==
    CASE oracle = "consistent" -> ConsistentPerms(padded, Positions(padded))
      [] oracle = "full"       -> Perms(Positions(padded))
      [] oracle = "sample"     -> SamplePerms(Len(padded))
      [] OTHER                 -> Perms(Positions(padded))
                                     \cup ShortAnswers(Positions(padded))

----------------------------------------------------------------------------
\* Initial state: a sorter about to be constructed

\* nothing is built, perform has not been called
Fresh ==
    /\ pc = "init"
    /\ err = ""
    /\ cs = << >>
    /\ all_node = << >>
    /\ parent = << >>
    /\ n_children = << >>
    /\ children = << >>
    /\ top = << >>
    /\ tmp = << >>
    /\ tr = NoNode
    /\ idx_to_node = << >>
    /\ top_k = 0
    /\ result = << >>
    /\ seed_pos = 0
    /\ nodes = << >>
    /\ path_pos = 0
    /\ resort_param = None
    /\ request = ResortRequest(<< >>, << >>)
    /\ cleaned_result = None
    /\ answer_len = -1
    /\ log = << >>

\* any number of passages and any window and branching factor within the
\* bounds (also pairs that build rejects), any kind of caller
Init ==
    /\ n_passage \in 1..MaxN
    /\ window_size \in 1..MaxWindow
    /\ r \in 1..window_size
    /\ oracle \in { "consistent", "full", "any" }
    /\ order \in IF oracle = "consistent"
                 THEN Perms(0..(n_passage - 1))
                 ELSE { RangeList(n_passage) }
    /\ Fresh

\* an exception leaves the generator: the run is over
Raise(e) == pc' = "error" /\ err' = e

----------------------------------------------------------------------------
\* TournamentSorter.__init__ and TournamentSortNode.build

\* build up to the while loop: the assertion and the leaves
BuildStart ==
    /\ pc = "init"
    /\ IF window_size % r # 0
       THEN /\ Raise("AssertionError")
            /\ UNCHANGED << cs, all_node, parent, n_children, children, top,
                            tmp, idx_to_node >>
       ELSE LET st == MakeLeaves(EmptyTree, RangeList(n_passage)) IN
            /\ cs' = st.all_node
            /\ all_node' = st.all_node
            /\ parent' = st.parent
            /\ n_children' = st.n_children
            /\ children' = st.children
            /\ top' = st.top
            /\ tmp' = st.tmp
            /\ idx_to_node' = BaseNodes(RangeList(n_passage), st.all_node)
            /\ pc' = "build"
            /\ err' = err
    /\ UNCHANGED << config, tr, top_k, result, seed_pos, nodes, path_pos,
                    locals, log >>

\* one round of `while len(cs) > 1`
BuildLevel ==
    /\ pc = "build"
    /\ Len(cs) > 1
    /\ LET g == GroupLevel(cs, 0, << >>, CurrentTree) IN
       /\ cs' = g.nxt
       /\ all_node' = g.st.all_node
       /\ parent' = g.st.parent
       /\ n_children' = g.st.n_children
       /\ children' = g.st.children
       /\ top' = g.st.top
       /\ tmp' = g.st.tmp
    /\ UNCHANGED << config, pc, err, tr, idx_to_node, top_k, result, seed_pos,
                    nodes, path_pos, locals, log >>

\* return cs[0], all_cs, base_nodes
BuildReturn ==
    /\ pc = "build"
    /\ Len(cs) <= 1
    /\ tr' = cs[1]
    /\ pc' = "built"
    /\ UNCHANGED << config, err, cs, all_node, parent, n_children, children,
                    top, tmp, idx_to_node, top_k, result, seed_pos, nodes,
                    path_pos, locals, log >>

----------------------------------------------------------------------------
\* TournamentSorter.perform(top_k)

\* perform(k) is called: result = []
Perform(k) ==
    /\ pc = "built"
    /\ top_k' = k
    /\ result' = << >>
    /\ seed_pos' = 1
    /\ pc' = "seed"
    /\ UNCHANGED << config, tree, err, cs, top, tmp, nodes, path_pos,
                    locals, log >>

\* the caller starts the generator with some K, also 0 and N + 1
PerformCall == \E k \in 0..(n_passage + 1) : Perform(k)

\* a request for node nd is computed and yielded:
\* get_resort_param, _pad_size, ResortRequest, yield
YieldRequest(nd, nextpc) ==
    IF ChildTopUnset(nd)
    THEN /\ Raise("AssertionError")
         /\ UNCHANGED << tmp, locals, log >>
    ELSE LET param == GetResortParam(nd) IN
         /\ tmp' = [ tmp EXCEPT ![nd] = param ]
         /\ resort_param' = param
         /\ request' = ResortRequest(PadSize(param), << >>)
         /\ answer_len' = -1
         /\ cleaned_result' = cleaned_result
         /\ log' = Append(log, [ node |-> nd, epoch |-> Len(result) ])
         /\ pc' = nextpc
         /\ err' = err

\* what the generator reads of request.result = ans once it is resumed:
\* its length (the assertion of line 191) and _unpad_perm's list of it
Reading(ans) ==
    [ len     |-> Len(ans),
      cleaned |-> UnpadPerm(resort_param, request.indices, ans) ]

\* the readings of all answers the caller may write to the request that
\* is out; answers that read alike give the same step
Readings == { Reading(ans) : ans \in OracleAnswers(request.indices) }

\* ApplyAnswer that refuses an answer without a real winner
\* (`assert len(cleaned_result) > 0` before resort)
ApplyAnswerRejectEmpty(nd, rd, nextpc) ==
    /\ answer_len' = rd.len
    /\ cleaned_result' = rd.cleaned
    /\ IF tmp[nd] = None \/ top[nd] # None \/ rd.cleaned = << >>
       THEN /\ Raise("AssertionError")
            /\ top' = top
       ELSE /\ top' = [ top EXCEPT ![nd] = Resort(tmp[nd], rd.cleaned) ]
            /\ pc' = nextpc
            /\ err' = err

\* ApplyAnswer that reads the answer and goes on without resort
ApplyAnswerDropped(nd, rd, nextpc) ==
    /\ answer_len' = rd.len
    /\ cleaned_result' = rd.cleaned
    /\ top' = top
    /\ pc' = nextpc
    /\ err' = err

\* the generator is resumed after the caller wrote request.result:
\* cleaned_result = _unpad_perm(...) and resort(cleaned_result) on node nd
ApplyAnswer(nd, rd, nextpc) ==
    /\ answer_len' = rd.len
    /\ cleaned_result' = rd.cleaned
    /\ IF tmp[nd] = None \/ top[nd] # None
       THEN /\ Raise("AssertionError")
            /\ top' = top
       ELSE /\ top' = [ top EXCEPT ![nd] = Resort(tmp[nd], rd.cleaned) ]
            /\ pc' = nextpc
            /\ err' = err

\* seed loop: get_resort_param returned None, next node
SeedSkip ==
    /\ pc = "seed"
    /\ seed_pos <= Len(all_node)
    /\ GetResortParam(all_node[seed_pos]) = None
    /\ seed_pos' = seed_pos + 1
    /\ UNCHANGED << config, tree, pc, err, cs, top, tmp, top_k, result, nodes,
                    path_pos, locals, log >>

\* seed loop: a request for the node is yielded
SeedRequest ==
    /\ pc = "seed"
    /\ seed_pos <= Len(all_node)
    /\ GetResortParam(all_node[seed_pos]) # None
    /\ YieldRequest(all_node[seed_pos], "seed_yield")
    /\ UNCHANGED << config, tree, cs, top, top_k, result, seed_pos, nodes,
                    path_pos >>

\* seed loop: resumed with the caller's answer
SeedResume ==
    /\ pc = "seed_yield"
    /\ \E rd \in Readings : ApplyAnswer(all_node[seed_pos], rd, "seed")
    /\ seed_pos' = seed_pos + 1
    /\ UNCHANGED << config, tree, cs, tmp, top_k, result, nodes, path_pos,
                    resort_param, request, log >>

\* the seed loop is over
SeedEnd ==
    /\ pc = "seed"
    /\ seed_pos > Len(all_node)
    /\ pc' = "loop"
    /\ UNCHANGED << config, tree, err, cs, top, tmp, top_k, result, seed_pos,
                    nodes, path_pos, locals, log >>

\* while len(result) < top_k: tpv = self._tr.top()[0];
\* result.append(tpv); nodes = self._pop(tpv)
Extract ==
    /\ pc = "loop"
    /\ Len(result) < top_k
    /\ IF top[tr] = None
       THEN /\ Raise("AssertionError")
            /\ UNCHANGED << top, result, nodes, path_pos >>
       ELSE IF Top(top, tr) = << >>
       THEN /\ Raise("IndexError")
            /\ UNCHANGED << top, result, nodes, path_pos >>
       ELSE LET tpv == Top(top, tr)[1]
                lst == PopList(idx_to_node[tpv]) IN
            /\ result' = Append(result, tpv)
            /\ nodes' = lst
            /\ top' = PopTops(top, lst)
            /\ path_pos' = 1
            /\ pc' = "path"
            /\ err' = err
    /\ UNCHANGED << config, tree, cs, tmp, top_k, seed_pos, locals, log >>

\* path loop: get_resort_param returned None (the leaf), next node
PathSkip ==
    /\ pc = "path"
    /\ path_pos <= Len(nodes)
    /\ GetResortParam(nodes[path_pos]) = None
    /\ path_pos' = path_pos + 1
    /\ UNCHANGED << config, tree, pc, err, cs, top, tmp, top_k, result,
                    seed_pos, nodes, locals, log >>

\* path loop: a request for the node is yielded
PathRequest ==
    /\ pc = "path"
    /\ path_pos <= Len(nodes)
    /\ GetResortParam(nodes[path_pos]) # None
    /\ YieldRequest(nodes[path_pos], "path_yield")
    /\ UNCHANGED << config, tree, cs, top, top_k, result, seed_pos, nodes,
                    path_pos >>

\* PathResume without `assert len(request.result) > 0`
PathResumeNoAssert ==
    /\ pc = "path_yield"
    /\ \E rd \in Readings : ApplyAnswer(nodes[path_pos], rd, "path")
    /\ path_pos' = path_pos + 1
    /\ UNCHANGED << config, tree, cs, tmp, top_k, result, seed_pos, nodes,
                    resort_param, request, log >>

\* path loop: resumed with the caller's answer;
\* assert len(request.result) > 0
PathResume ==
    /\ pc = "path_yield"
    /\ \E rd \in Readings :
         IF rd.len = 0
         THEN /\ answer_len' = rd.len
              /\ Raise("AssertionError")
              /\ UNCHANGED << top, path_pos, cleaned_result >>
         ELSE /\ ApplyAnswer(nodes[path_pos], rd, "path")
              /\ path_pos' = path_pos + 1
    /\ UNCHANGED << config, tree, cs, tmp, top_k, result, seed_pos, nodes,
                    resort_param, request, log >>

\* the path loop is over: back to the while test
PathEnd ==
    /\ pc = "path"
    /\ path_pos > Len(nodes)
    /\ pc' = "loop"
    /\ UNCHANGED << config, tree, err, cs, top, tmp, top_k, result, seed_pos,
                    nodes, path_pos, locals, log >>

\* Return whose loop test is off by one (`while len(result) <= top_k`)
ReturnAbove ==
    /\ pc = "loop"
    /\ Len(result) > top_k
    /\ pc' = "done"
    /\ UNCHANGED << config, tree, err, cs, top, tmp, top_k, result, seed_pos,
                    nodes, path_pos, locals, log >>

\* len(result) >= top_k: return result
Return ==
    /\ pc = "loop"
    /\ Len(result) >= top_k
    /\ pc' = "done"
    /\ UNCHANGED << config, tree, err, cs, top, tmp, top_k, result, seed_pos,
                    nodes, path_pos, locals, log >>

Next ==
    \/ BuildStart
    \/ BuildLevel
    \/ BuildReturn
    \/ PerformCall
    \/ SeedSkip
    \/ SeedRequest
    \/ SeedResume
    \/ SeedEnd
    \/ Extract
    \/ PathSkip
    \/ PathRequest
    \/ PathResume
    \/ PathEnd
    \/ Return

Spec == Init /\ [][Next]_vars

\* the callers that write a full permutation into every request, any one
\* (those that follow one fixed order are among them)
InitFair == Init /\ oracle = "full"

\* the program with such a caller, who answers every request it is handed,
\* and a generator that runs on to its next yield, its return or its
\* exception whenever it is resumed
SpecFair == InitFair /\ [][Next]_vars /\ WF_vars(Next)

----------------------------------------------------------------------------
\* The scenario of the specification's section 8: 8 candidates, windows of
\* 4, branching factor 2, perform(3).  The caller answers every request
\* with one of three full permutations, chosen afresh each time, so its
\* answers need not agree with any one order.

InitScenario ==
    /\ n_passage = 8
    /\ window_size = 4
    /\ r = 2
    /\ oracle = "sample"
    /\ order = RangeList(n_passage)
    /\ Fresh

NextScenario ==
    \/ BuildStart
    \/ BuildLevel
    \/ BuildReturn
    \/ Perform(3)
    \/ SeedSkip
    \/ SeedRequest
    \/ SeedResume
    \/ SeedEnd
    \/ Extract
    \/ PathSkip
    \/ PathRequest
    \/ PathResume
    \/ PathEnd
    \/ Return

SpecScenario == InitScenario /\ [][NextScenario]_vars

----------------------------------------------------------------------------
\* Vocabulary of the properties

Nodes == 1..Len(all_node)
Leaves == { nd \in Nodes : IsLeaf(nd) }
InternalNodes == { nd \in Nodes : ~IsLeaf(nd) }
Candidates == 0..(n_passage - 1)

\* perform has been called
Performing == pc \in { "seed", "seed_yield", "loop", "path", "path_yield", "done" }

\* an exception left perform (build's own assertion is not one of them)
PerformFailed == pc = "error" /\ tr # NoNode

\* the caller writes a full permutation of the window's positions each time
FullOracle == oracle \in { "consistent", "full", "sample" }

\* 1 <= K <= N
ValidK == 1 <= top_k /\ top_k <= n_passage

NoRepeats(s) == \A a, b \in 1..Len(s) : a # b => s[a] # s[b]

\* the nodes whose top is set
ValidTop(nd) == top[nd] # None

----------------------------------------------------------------------------
\* C1: exactness.  When every answer orders the window consistently with the
\* caller's fixed strict total order and 1 <= K <= N, perform(K) raises
\* nothing, the i-th extracted candidate is always the i-th best of 0..N-1,
\* and the returned list is the K best, best first.
C1_Exactness ==
    (oracle = "consistent" /\ ValidK) =>
        /\ ~PerformFailed
        /\ \A a \in 1..Len(result) : result[a] = order[a]
        /\ pc = "done" => result = SubSeq(order, 1, top_k)

\* a two-level tree, an order that is not the index order, K = 2 returned
C1_Witness ==
    /\ oracle = "consistent"
    /\ pc = "done"
    /\ n_passage = 3
    /\ Cardinality(InternalNodes) = 2
    /\ order = << 2, 0, 1 >>
    /\ top_k = 2
    /\ result = << 2, 0 >>

\* C2: with full-permutation answers (consistent or not) and 1 <= K <= N,
\* perform(K) raises nothing and returns exactly K candidate indices,
\* pairwise distinct, all of 0..N-1.
C2_KDistinctMembers ==
    (FullOracle /\ ValidK) =>
        /\ ~PerformFailed
        /\ NoRepeats(result)
        /\ Range(result) \subseteq Candidates
        /\ Len(result) <= top_k
        /\ pc = "done" => Len(result) = top_k

\* an inconsistent caller: 3 of 3 returned in an order no index order gives
C2_Witness ==
    /\ oracle = "full"
    /\ pc = "done"
    /\ n_passage = 3
    /\ Cardinality(InternalNodes) = 2
    /\ top_k = 3
    /\ result = << 1, 2, 0 >>

\* C3: monotonicity.  In every state of every run, a candidate that is in
\* the result is in the top() of no node whose top is set: its leaf is
\* empty and no internal node lists it.
C3_Monotonic ==
    \A nd \in Nodes :
        ValidTop(nd) => Range(Top(top, nd)) \cap Range(result) = {}

\* after an extraction the whole path has been recomputed and the root
\* still offers a candidate
C3_Witness ==
    /\ pc = "loop"
    /\ Len(result) = 1
    /\ Cardinality(InternalNodes) = 2
    /\ Len(nodes) = 3
    /\ \A nd \in Nodes : ValidTop(nd)
    /\ Top(top, tr) # << >>

----------------------------------------------------------------------------
\* Requests, read from the log

\* the nodes of the requests yielded while len(result) was e, in order
RECURSIVE EpochNodes(_, _)
EpochNodes(lg, e) ==
    IF lg = << >> THEN << >>
    ELSE IF Head(lg).epoch = e
         THEN << Head(lg).node >> \o EpochNodes(Tail(lg), e)
         ELSE EpochNodes(Tail(lg), e)

\* the internal nodes above nd, nearest first, by the parent links
RECURSIVE ChainUp(_)
ChainUp(nd) ==
    IF parent[nd] = NoNode THEN << >>
    ELSE << parent[nd] >> \o ChainUp(parent[nd])

IsPrefix(s, t) == Len(s) <= Len(t) /\ s = SubSeq(t, 1, Len(s))

\* the e-th extraction and the recomputation of its path are over
EpochOver(e) == e < Len(result) \/ (e = Len(result) /\ pc \in { "loop", "done" })

\* C4: seed phase.  When the seed loop is over and nothing has been
\* extracted yet, one request has been yielded per internal node (none for
\* a leaf) and every internal node has a top; the requests yielded before
\* the first extraction stay that many for the rest of the run.
C4_SeedPhase ==
    /\ \A k \in 1..Len(log) : log[k].node \in InternalNodes
    /\ (pc = "loop" /\ result = << >>) =>
           /\ Len(log) = Cardinality(InternalNodes)
           /\ Range(EpochNodes(log, 0)) = InternalNodes
           /\ \A nd \in InternalNodes : ValidTop(nd)
    /\ result # << >> =>
           /\ Len(EpochNodes(log, 0)) = Cardinality(InternalNodes)
           /\ Range(EpochNodes(log, 0)) = InternalNodes

\* the first candidate has just been extracted from a tree of two internal
\* nodes, after two requests
C4_Witness ==
    /\ pc = "path"
    /\ path_pos = 1
    /\ Len(result) = 1
    /\ Cardinality(InternalNodes) = 2
    /\ Len(log) = 2

\* C5: extraction phase.  For every extraction, the requests yielded after
\* it and before the next one (or the return) are for the internal nodes
\* above the extracted candidate's leaf, one each, nearest first; while the
\* path is being recomputed they are a prefix of that chain.
C5_PathRequests ==
    \A e \in 1..Len(result) :
        LET chain == ChainUp(idx_to_node[result[e]]) IN
        /\ IsPrefix(EpochNodes(log, e), chain)
        /\ EpochOver(e) => EpochNodes(log, e) = chain

\* two extractions whose chains differ in length (candidate 2 hangs under
\* the root, candidate 0 one level lower), both recomputed, K-th included
C5_Witness ==
    /\ pc = "done"
    /\ n_passage = 3
    /\ Cardinality(InternalNodes) = 2
    /\ result = << 2, 0 >>
    /\ Len(EpochNodes(log, 1)) = 1
    /\ Len(EpochNodes(log, 2)) = 2

----------------------------------------------------------------------------
\* Shape of the tree

\* internal nodes all of whose children are leaves
FirstLevel ==
    { nd \in InternalNodes : Range(children[nd]) \subseteq Leaves }

\* internal nodes all of whose children are first-level nodes
SecondLevel ==
    { nd \in InternalNodes : Range(children[nd]) \subseteq FirstLevel }

\* C6: the scenario N = 8, window_size = 4, branching_factor = 2,
\* perform(3), full-permutation answers.  build makes 4 first-level
\* nodes of 2 leaves each, 2 second-level nodes and the root, 7 internal
\* nodes; 7 requests are yielded before the first extraction, 3 after each
\* of the 3 extractions, 16 in all, and nothing is raised.  (The tree is
\* read when build returns; no later step changes its shape.)
C6_Scenario ==
    /\ pc # "error"
    /\ pc = "built" =>
           /\ Cardinality(Leaves) = 8
           /\ Cardinality(InternalNodes) = 7
           /\ Cardinality(FirstLevel) = 4
           /\ \A nd \in FirstLevel : Len(children[nd]) = 2
           /\ Cardinality(SecondLevel) = 2
           /\ Range(children[tr]) = SecondLevel
    /\ (pc = "loop" /\ result = << >>) => Len(log) = 7
    /\ result # << >> => Len(EpochNodes(log, 0)) = 7
    /\ \A e \in 1..Len(result) :
           EpochOver(e) => Len(EpochNodes(log, e)) = 3
    /\ pc = "done" => Len(result) = 3 /\ Len(log) = 16

\* perform(3) has returned after 16 requests, with a result that no
\* consistent caller ranking the candidates by index would give
C6_Witness ==
    /\ pc = "done"
    /\ n_passage = 8
    /\ top_k = 3
    /\ Len(log) = 16
    /\ result = << 6, 5, 4 >>

----------------------------------------------------------------------------
\* the candidates whose leaf has not been invalidated
LiveCandidates == { x \in Candidates : top[idx_to_node[x]] # << >> }

\* C7: K = N with full-permutation (hence non-empty) answers.  perform(N)
\* raises nothing; a leaf is invalidated exactly when its candidate is in
\* the result; before the last extraction one leaf is left and the root
\* offers its candidate first; after it every window on the path is empty
\* of real candidates and still padded with fillers, its answer is applied,
\* and the run returns a permutation of 0..N-1.
C7_AllOfN ==
    (FullOracle /\ top_k = n_passage) =>
        /\ ~PerformFailed
        /\ LiveCandidates = Candidates \ Range(result)
        /\ (pc = "loop" /\ Len(result) = n_passage - 1) =>
               /\ Cardinality(LiveCandidates) = 1
               /\ ValidTop(tr)
               /\ Top(top, tr) # << >>
               /\ Top(top, tr)[1] \in LiveCandidates
        /\ (pc = "path_yield" /\ Len(result) = n_passage) =>
               /\ resort_param = << >>
               /\ request.indices # << >>
        /\ pc = "done" =>
               /\ Len(result) = n_passage
               /\ Range(result) = Candidates
               /\ \A nd \in Nodes : top[nd] = << >>

\* all 3 of 3 candidates returned from a two-level tree; the last answer
\* was a non-empty permutation of fillers only
C7_Witness ==
    /\ oracle = "full"
    /\ pc = "done"
    /\ n_passage = 3
    /\ top_k = 3
    /\ Cardinality(InternalNodes) = 2
    /\ result = << 1, 0, 2 >>
    /\ answer_len > 0
    /\ cleaned_result = << >>
    /\ top[tr] = << >>

----------------------------------------------------------------------------
\* C8: K > N is rejected when perform is entered: in a run with K > N no
\* request is yielded and no candidate is extracted.
C8_KAboveNRejected ==
    top_k > n_passage => (log = << >> /\ result = << >>)

\* the node of the request yielded last
LastNode == log[Len(log)].node

\* the last request has been answered
Answered == log # << >> /\ answer_len >= 0

C10_FixedWindow ==
    pc \in { "seed_yield", "path_yield" } =>
        Len(request.indices) = window_size

----------------------------------------------------------------------------
\* the places of ans whose entry is a position of the real prefix 0..L-1
RealPlaces(ans, L) == { k \in 1..Len(ans) : ans[k] < L }

\* the entries of ans below L, in the order of their places: the j-th is
\* the entry at the place that has j real places up to itself
RealEntries(ans, L) ==
    LET places == RealPlaces(ans, L) IN
    [ j \in 1..Cardinality(places) |->
        ans[CHOOSE k \in places :
              Cardinality({ m \in places : m <= k }) = j] ]

\* C11: unpadding.  While a request is out, its window starts with the
\* real sequence of length L, and for every answer the caller may write the
\* list handed to resort is the answer's entries below L in their original
\* order.  Once an answer has been applied, the list resort got holds
\* positions 0..L-1 only and the node's new top (until the next extraction
\* through the node resets it) holds real candidates of the window only,
\* each at most once.
C11_Unpadding ==
    /\ pc \in { "seed_yield", "path_yield" } =>
           LET L == Len(resort_param) IN
           /\ L <= Len(request.indices)
           /\ SubSeq(request.indices, 1, L) = resort_param
           /\ tmp[LastNode] = resort_param
           /\ \A ans \in OracleAnswers(request.indices) :
                  Reading(ans).cleaned = RealEntries(ans, L)
    /\ (Answered /\ pc # "error") =>
           /\ \A k \in 1..Len(cleaned_result) :
                  cleaned_result[k] \in 0..(Len(resort_param) - 1)
           /\ ValidTop(LastNode) =>
                  /\ top[LastNode] = Resort(resort_param, cleaned_result)
                  /\ Range(top[LastNode]) \subseteq Range(resort_param)
                  /\ NoRepeats(top[LastNode])

\* the window [0,1,2,2] of the first internal node (real prefix [0,1], two
\* fillers) was answered with four positions; the two filler positions
\* were dropped and the real ones kept in the answer's order, 1 before 0
C11_Witness ==
    /\ oracle = "full"
    /\ pc = "seed"
    /\ resort_param = << 0, 1 >>
    /\ request.indices = << 0, 1, 2, 2 >>
    /\ answer_len = 4
    /\ cleaned_result = << 1, 0 >>
    /\ top[LastNode] = << 1, 0 >>

----------------------------------------------------------------------------
\* build has returned
Built == tr # NoNode

\* the nodes that list nd among their children
ParentsOf(nd) == { p \in Nodes : Contains(children[p], nd) }

\* C12: tree shape.  Whenever build has returned (window_size a multiple
\* of branching_factor), the root is the only node without a parent; every
\* other node is a child of exactly one node, once, and that node is its
\* parent; there are N leaves and the index-to-leaf map sends each candidate
\* to a leaf of its own; when build returns that leaf holds the candidate
\* and no other leaf does; every internal node has between 2 and
\* window_size / branching_factor children.
C12_TreeShape ==
    Built =>
        /\ window_size % r = 0
        /\ tr \in Nodes
        /\ { nd \in Nodes : parent[nd] = NoNode } = { tr }
        /\ ParentsOf(tr) = {}
        /\ \A nd \in Nodes \ { tr } :
               /\ ParentsOf(nd) = { parent[nd] }
               /\ Cardinality({ k \in 1..Len(children[parent[nd]]) :
                                  children[parent[nd]][k] = nd }) = 1
        /\ Cardinality(Leaves) = n_passage
        /\ DOMAIN idx_to_node = Candidates
        /\ \A x \in Candidates : idx_to_node[x] \in Leaves
        /\ \A x, y \in Candidates :
               x # y => idx_to_node[x] # idx_to_node[y]
        /\ pc = "built" =>
               \A x \in Candidates :
                   { nd \in Leaves : top[nd] = << x >> } = { idx_to_node[x] }
        /\ \A nd \in InternalNodes :
               /\ n_children[nd] = Len(children[nd])
               /\ 2 <= Len(children[nd])
               /\ Len(children[nd]) <= window_size \div r

\* build has returned a tree in which a lone third leaf was promoted and
\* hangs directly under the root, next to the node of the first two
C12_Witness ==
    /\ pc = "built"
    /\ n_passage = 3
    /\ window_size = 4
    /\ r = 2
    /\ Cardinality(InternalNodes) = 2
    /\ children[4] = << 1, 2 >>
    /\ children[tr] = << 4, 3 >>
    /\ parent[3] = tr

\* the level that one more round of build's while loop would make
NextLevel == GroupLevel(cs, 0, << >>, CurrentTree).nxt

\* C13: build terminates for every window_size that is a positive multiple
\* of branching_factor, window_size = branching_factor included: every
\* round of the level-grouping loop makes a level that is strictly shorter
\* (and not empty), and build returns with one node left, the root.
C13_BuildTerminates ==
    /\ (pc = "build" /\ Len(cs) > 1) =>
           /\ Len(NextLevel) >= 1
           /\ Len(NextLevel) < Len(cs)
    /\ Built => cs = << tr >>

----------------------------------------------------------------------------
\* the candidates of the leaves of nd's subtree
RECURSIVE SubtreeCandidates(_)
SubtreeCandidates(nd) ==
    IF IsLeaf(nd) THEN { x \in DOMAIN idx_to_node : idx_to_node[x] = nd }
    ELSE UNION { SubtreeCandidates(children[nd][k]) :
                   k \in 1..Len(children[nd]) }

\* C14: node top bound.  In every state of a run, whatever the caller
\* answers, every internal node whose top is set has a top() of at most
\* branching_factor entries, pairwise distinct, each the candidate of a
\* leaf of the node's own subtree.
C14_TopBound ==
    Performing =>
        \A nd \in InternalNodes :
            ValidTop(nd) =>
                /\ Len(Top(top, nd)) <= r
                /\ NoRepeats(Top(top, nd))
                /\ Range(Top(top, nd)) \subseteq SubtreeCandidates(nd)

\* branching factor 2, a caller free to repeat positions: one candidate is
\* extracted, its path is recomputed, and the root offers two candidates
\* while the node below it offers the one it has left
C14_Witness ==
    /\ oracle = "any"
    /\ pc = "loop"
    /\ r = 2
    /\ n_passage = 3
    /\ Len(result) = 1
    /\ \A nd \in InternalNodes : ValidTop(nd)
    /\ Len(Top(top, tr)) = 2
    /\ Len(Top(top, 4)) = 1

----------------------------------------------------------------------------
\* C15: run termination.  With 1 <= K <= N and a caller that answers every
\* request with a full permutation, perform(K) eventually returns with
\* len(result) = K.  The requests are finitely many: at most one per
\* internal node before the first extraction and one per internal node
\* after each extraction.  When it returns, the last request belongs to
\* the path of the K-th extraction, and nothing happens after the return.
C15_RunTerminates ==
    /\ []((FullOracle /\ ValidK /\ Performing) =>
             /\ Len(result) <= top_k
             /\ Len(log) <= Cardinality(InternalNodes) * (1 + Len(result))
             /\ pc = "done" =>
                    /\ Len(result) = top_k
                    /\ \A k \in 1..Len(log) : log[k].epoch <= top_k
                    /\ EpochNodes(log, top_k)
                          = ChainUp(idx_to_node[result[top_k]]))
    /\ [][pc # "done"]_vars
    /\ (FullOracle /\ ValidK /\ Performing)
          ~> (pc = "done" /\ Len(result) = top_k)

\* perform(2) over 3 candidates has returned after 2 seed requests, 2
\* requests for the first path and 1 for the second
C15_Witness ==
    /\ oracle = "full"
    /\ pc = "done"
    /\ n_passage = 3
    /\ top_k = 2
    /\ Len(result) = 2
    /\ Len(log) = 5
    /\ log[5].epoch = 2

----------------------------------------------------------------------------
\* the node whose get_resort_param is called next, NoNode if none is
NextNode ==
    IF pc = "seed" /\ seed_pos <= Len(all_node) THEN all_node[seed_pos]
    ELSE IF pc = "path" /\ path_pos <= Len(nodes) THEN nodes[path_pos]
    ELSE NoNode

\* the while test passed last or passes next: self._tr.top()[0] is read
ReadsRoot == pc = "loop" /\ Len(result) < top_k

\* C16: children before parent.  In both phases, whenever a request is
\* about to be computed for an internal node (its top is unset), every one
\* of its children has a top; whenever root.top()[0] is about to be read
\* the root has a top, and with 1 <= K <= N and full-permutation answers a
\* non-empty one; in such runs no assertion fails.
C16_ChildrenFirst ==
    /\ (NextNode # NoNode /\ ~IsLeaf(NextNode) /\ ~ValidTop(NextNode)) =>
           ~ChildTopUnset(NextNode)
    /\ ReadsRoot => ValidTop(tr)
    /\ (FullOracle /\ ValidK) =>
           /\ ReadsRoot => Top(top, tr) # << >>
           /\ ~PerformFailed

\* the second extraction of a full-permutation run is being recomputed:
\* the request for the root is next, its top is unset, and the node below
\* it on the path has just got its new top
C16_Witness ==
    /\ oracle = "full"
    /\ pc = "path"
    /\ Len(result) = 2
    /\ Len(nodes) = 3
    /\ path_pos = 3
    /\ NextNode = tr
    /\ ~ValidTop(tr)
    /\ ValidTop(nodes[2])
    /\ top[nodes[1]] = << >>

----------------------------------------------------------------------------
\* the leaf of candidate x and the nodes above it, as a set
PathOf(x) == { idx_to_node[x] } \cup Range(ChainUp(idx_to_node[x]))

\* a step of the extraction phase (the extraction itself, or a step of the
\* recomputation of its path) leaves _top and _tmp of every node off the
\* path of the candidate extracted last as they were
ExtractionFrame ==
    pc \in { "loop", "path", "path_yield" } =>
        IF result' = << >> THEN top' = top /\ tmp' = tmp
        ELSE \A nd \in Nodes \ PathOf(result'[Len(result')]) :
                 top'[nd] = top[nd] /\ tmp'[nd] = tmp[nd]

\* C17: frame of an extraction step.  Extracting candidate x and
\* recomputing its path changes the top of no node off the parent chain
\* from x's leaf to the root; every request yielded after an extraction is
\* for a node of that extraction's chain; and the list _pop returned is the
\* chain.
C17_ExtractionFrame ==
    /\ [][ExtractionFrame]_vars
    /\ [](\A k \in 1..Len(log) :
             log[k].epoch >= 1 =>
                 log[k].node \in PathOf(result[log[k].epoch]))
    /\ []((pc \in { "path", "path_yield" }) =>
             Range(nodes) = PathOf(result[Len(result)]))

\* candidate 2, whose leaf hangs under the root, was extracted first and
\* its path recomputed with one request, for the root; the internal node
\* of candidates 0 and 1 is off the path and still offers both
C17_Witness ==
    /\ oracle = "full"
    /\ pc = "loop"
    /\ n_passage = 3
    /\ r = 2
    /\ result = << 2 >>
    /\ Len(nodes) = 2
    /\ Len(log) = 3
    /\ log[3] = [ node |-> tr, epoch |-> 1 ]
    /\ top[4] = << 1, 0 >>
    /\ ValidTop(tr)

----------------------------------------------------------------------------
\* the three states of an internal node, by its _top and its _tmp (the
\* window of the request it is waiting for)
NodeValid(nd) == ValidTop(nd) /\ tmp[nd] = None
NodeInvalidated(nd) == ~ValidTop(nd) /\ tmp[nd] = None
NodeAwaiting(nd) == ~ValidTop(nd) /\ tmp[nd] # None

\* C18: three-state node invariant.  resort clears the node's pending
\* window, so every internal node is valid, invalidated or awaiting a
\* response; none has a top together with a pending window.
C18_ThreeStates ==
    \A nd \in InternalNodes :
        NodeValid(nd) \/ NodeInvalidated(nd) \/ NodeAwaiting(nd)

----------------------------------------------------------------------------
\* A caller that, while the generator is suspended on a request, calls
\* get_resort_param itself on the node that is waiting for the answer.

\* get_resort_param() on the awaiting node, called by the caller: the
\* node is internal and its _top is None, so _tmp is assigned again and
\* the list is returned; the only assertion on the way is child.top()'s
DirectGetResortParam ==
    /\ pc \in { "seed_yield", "path_yield" }
    /\ IF ChildTopUnset(LastNode)
       THEN /\ Raise("AssertionError")
            /\ tmp' = tmp
       ELSE /\ tmp' = IF GetResortParam(LastNode) = None THEN tmp
                      ELSE [ tmp EXCEPT ![LastNode] = GetResortParam(LastNode) ]
            /\ pc' = IF pc = "seed_yield" THEN "seed_yield_again"
                      ELSE "path_yield_again"
            /\ err' = err
    /\ UNCHANGED << config, tree, cs, top, top_k, result, seed_pos, nodes,
                    path_pos, locals, log >>

\* the call has returned; the caller turns back to the request it holds
CallerGoesOn ==
    /\ pc \in { "seed_yield_again", "path_yield_again" }
    /\ pc' = IF pc = "seed_yield_again" THEN "seed_yield" ELSE "path_yield"
    /\ UNCHANGED << config, tree, err, cs, top, tmp, top_k, result, seed_pos,
                    nodes, path_pos, locals, log >>

NextProtocol ==
    \/ Next
    \/ DirectGetResortParam
    \/ CallerGoesOn

SpecProtocol == Init /\ [][NextProtocol]_vars

\* C19: protocol violation is an assertion failure.  get_resort_param on
\* an internal node that already awaits a response never returns: it
\* raises an assertion, issuing no second request.
C19_SecondRequestAsserts ==
    pc \notin { "seed_yield_again", "path_yield_again" }

----------------------------------------------------------------------------
\* the last request was yielded while a path was being recomputed
LastInExtraction == log # << >> /\ log[Len(log)].epoch >= 1

\* C20: an empty answer is rejected in the extraction phase.  When the raw
\* answer to a request of a path recomputation is the empty list, the run
\* is over with an AssertionError, resort has not run (the node's top is
\* still unset and the generator is still at that node), and since no step
\* leaves a failed run no further request is yielded.
C20_EmptyAnswerRejected ==
    /\ []((LastInExtraction /\ Answered /\ answer_len = 0) =>
             /\ PerformFailed
             /\ err = "AssertionError"
             /\ ~ValidTop(LastNode)
             /\ nodes[path_pos] = LastNode)
    /\ [][pc # "error"]_vars

\* the first candidate was extracted, the request for the node above its
\* leaf was answered with the empty list, and the run has failed
C20_Witness ==
    /\ oracle = "any"
    /\ pc = "error"
    /\ err = "AssertionError"
    /\ Len(result) = 1
    /\ LastInExtraction
    /\ answer_len = 0
    /\ path_pos = 2
    /\ ~ValidTop(LastNode)

----------------------------------------------------------------------------
\* the generator is suspended on a request
Suspended == pc \in { "seed_yield", "path_yield" }

\* the internal nodes that await a response: a request was yielded for
\* them since the last extraction (since the start, before the first) and
\* they have no top yet
AwaitingNodes ==
    { nd \in InternalNodes :
        Contains(EpochNodes(log, Len(result)), nd) /\ ~ValidTop(nd) }

\* a step that yields a request or extracts a candidate starts where no
\* node awaits a response; a step taken while the generator is suspended
\* does neither, and unless it fails it gives the awaiting node its top
\* and changes no other
AlternationStep ==
    /\ (log' # log \/ result' # result) =>
           (~Suspended /\ AwaitingNodes = {})
    /\ Suspended =>
           /\ log' = log
           /\ result' = result
           /\ answer_len' >= 0
           /\ pc' # "error" =>
                  /\ top'[LastNode] # None
                  /\ \A nd \in Nodes \ { LastNode } : top'[nd] = top[nd]

\* C21: strict request/response alternation.  In every state of a run at
\* most one node awaits a response: the node of the last request while the
\* generator is suspended on it, none while the generator runs; the next
\* request is yielded and the next candidate extracted only after the
\* answer to the outstanding request has been applied to the node that
\* issued it.
C21_Alternation ==
    /\ [](Cardinality(AwaitingNodes) <= 1)
    /\ [](Suspended =>
             (AwaitingNodes = { LastNode } /\ answer_len = -1))
    /\ [](pc \in { "seed", "loop", "path", "done" } => AwaitingNodes = {})
    /\ [][AlternationStep]_vars

\* the second request of a path recomputation is out, for the root; the
\* node below it was requested and answered before and has its top, and
\* the root is the one node that awaits a response
C21_Witness ==
    /\ pc = "path_yield"
    /\ Len(result) = 1
    /\ Len(nodes) = 3
    /\ path_pos = 3
    /\ EpochNodes(log, 1) = << nodes[2], tr >>
    /\ ValidTop(nodes[2])
    /\ AwaitingNodes = { tr }

----------------------------------------------------------------------------
\* the real sequence of the request that is out, and what was appended
RealPart == SubSeq(request.indices, 1, Len(resort_param))
Fillers ==
    SubSeq(request.indices, Len(resort_param) + 1, Len(request.indices))

\* C22: filler selection.  When N >= window_size, every request keeps the
\* real sequence unchanged as its prefix; a real sequence of window_size
\* entries gets no filler, and a shorter one is filled up to window_size
\* with candidate indices of 0..N-1 that are pairwise distinct, not in the
\* real sequence, in descending order, and larger than every index that
\* is neither real nor a filler.
C22_FillerSelection ==
    (Suspended /\ n_passage >= window_size) =>
        /\ Len(resort_param) <= window_size
        /\ RealPart = resort_param
        /\ Len(request.indices) = window_size
        /\ Range(Fillers) \subseteq Candidates
        /\ Range(Fillers) \cap Range(resort_param) = {}
        /\ \A a, b \in 1..Len(Fillers) : a < b => Fillers[a] > Fillers[b]
        /\ \A x \in Candidates \ (Range(resort_param) \cup Range(Fillers)) :
               \A k \in 1..Len(Fillers) : x < Fillers[k]

\* 3 candidates under one node, windows of 3: candidates 0 and 2 are
\* extracted, the real sequence is [1] and the fillers are 2, 0
C22_Witness ==
    /\ pc = "path_yield"
    /\ n_passage = 3
    /\ window_size = 3
    /\ Range(result) = { 0, 2 }
    /\ resort_param = << 1 >>
    /\ Fillers = << 2, 0 >>
    /\ request.indices = << 1, 2, 0 >>

----------------------------------------------------------------------------
\* C23: apply_result keeps only the first branching_factor distinct
\* candidates: the list stored as an internal node's top, not only the
\* slice top() returns, has at most branching_factor entries.
C23_StoredTopBound ==
    \A nd \in InternalNodes :
        ValidTop(nd) => Len(top[nd]) <= r

====
